---------------------------- MODULE Spec2Model ----------------------------
(***************************************************************************)
(* Model of the news rewrite-and-publish backend: the provider adapters    *)
(* and the dispatcher (api_clients.py), the publishing client              *)
(* (publish.py) and the HTTP endpoints that expose them (routes.py).       *)
(*                                                                         *)
(* Three specifications share the state.  Spec answers /rewrite and        *)
(* /publish requests over the full range of their inputs.  SpecSession     *)
(* answers requests to every route, /login and /logout included, so that   *)
(* the valid session token changes.  SpecUpload runs several upload-image  *)
(* requests concurrently, a step at a time.                                *)
(*                                                                         *)
(* Text is a sequence of tokens.  A token stands for one character (" ",   *)
(* "\n", "a") or for one word whose characters always occur together (a    *)
(* keyword of the tag table, "RATE_LIMIT_REACHED", a word of an error      *)
(* message).  Python values that may be None are records                   *)
(* [kind, s]: Str(s) or None.                                               *)
(***************************************************************************)
EXTENDS Integers, Sequences, FiniteSets, TLC

\* ------------------------------------------------------------------ bounds
\* longest article text of a /rewrite request, in tokens
MaxArticleLen == 3
\* longest completion text a provider returns, in tokens
MaxCompletionLen == 4
\* longest news text of a /publish request, in tokens
MaxNewsLen == 5
\* longest requested tag list
MaxTags == 2
\* longest requested category list
MaxCats == 2
\* most categories the CMS lists
MaxWpCats == 2
\* most words in the body of a worded news text
MaxBodyWords == 2
\* most session tokens ever generated (one at start, one per login or logout)
MaxTokens == 3
\* most upload-image requests in progress at once
MaxUploads == 2

\* ------------------------------------------------------------ python values
None == [kind |-> "None", s |-> <<>>]
Str(s) == [kind |-> "str", s |-> s]
\* Python truthiness of an Optional[str]
Truthy(v) == v.kind = "str" /\ v.s # <<>>

\* all token sequences over alphabet A of length <= n
SeqsUpTo(A, n) == UNION {[1..k -> A] : k \in 0..n}

\* ------------------------------------------------------------ str methods
Whitespace == {" ", "\n"}

RECURSIVE LStrip(_)
LStrip(s) ==
    IF s # <<>> /\ Head(s) \in Whitespace THEN LStrip(Tail(s)) ELSE s

RECURSIVE RStrip(_)
RStrip(s) ==
    IF s # <<>> /\ s[Len(s)] \in Whitespace
    THEN RStrip(SubSeq(s, 1, Len(s) - 1)) ELSE s

\* str.strip()
Strip(s) == RStrip(LStrip(s))

\* s.startswith(p)
StartsWith(s, p) == Len(p) <= Len(s) /\ SubSeq(s, 1, Len(p)) = p

\* sub in s
Contains(s, sub) ==
    \E i \in 1..(Len(s) - Len(sub) + 1) : SubSeq(s, i, i + Len(sub) - 1) = sub

\* str.lower(), token by token
LowerToken(t) ==
    CASE t = "Banner" -> "banner"
      [] t = "Rate" -> "rate"
      [] t = "Limit" -> "limit"
      [] t = "Quota" -> "quota"
      [] t = "Exceeded" -> "exceeded"
      [] t = "Too" -> "too"
      [] t = "Many" -> "many"
      [] t = "Requests" -> "requests"
      [] t = "RateLimitReached" -> "ratelimitreached"
      [] OTHER -> t

Lower(s) == [i \in 1..Len(s) |-> LowerToken(s[i])]

\* s.split(sep): the list of pieces, left to right, non-overlapping
RECURSIVE SplitFrom(_, _, _)
SplitFrom(s, sep, piece) ==
    IF s = <<>> THEN <<piece>>
    ELSE IF StartsWith(s, sep)
         THEN <<piece>> \o SplitFrom(SubSeq(s, Len(sep) + 1, Len(s)), sep, <<>>)
         ELSE SplitFrom(Tail(s), sep, Append(piece, Head(s)))

Split(s, sep) == SplitFrom(s, sep, <<>>)

\* sep.join(parts)
RECURSIVE Join(_, _)
Join(sep, parts) ==
    IF parts = <<>> THEN <<>>
    ELSE IF Len(parts) = 1 THEN parts[1]
    ELSE parts[1] \o sep \o Join(sep, Tail(parts))

\* s.replace(old, new)
Replace(s, old, new) == Join(new, Split(s, old))

\* s.split(sep, 1): at most one split, at the first occurrence of sep
RECURSIVE Split1From(_, _, _)
Split1From(s, sep, piece) ==
    IF s = <<>> THEN <<piece>>
    ELSE IF StartsWith(s, sep)
         THEN <<piece, SubSeq(s, Len(sep) + 1, Len(s))>>
         ELSE Split1From(Tail(s), sep, Append(piece, Head(s)))

Split1(s, sep) == Split1From(s, sep, <<>>)


\* --------------------------------------------------------- api_clients.py
\* the literal "RATE_LIMIT_REACHED"
RATE_LIMIT_REACHED == Str(<<"RATE_LIMIT_REACHED">>)

\* What one adapter invocation yields: the value it returns or the fact that
\* an exception left it, and the number of HTTP requests it sent.
Returned(v, n) == [outcome |-> "return", value |-> v, requests |-> n]
Raised(n) == [outcome |-> "raise", value |-> None, requests |-> n]

\* Behaviour of the world during one adapter invocation:
\*   completion         the provider answers 2xx; text is the first
\*                      completion's content
\*   http_error         the provider answers with an error status (aiohttp's
\*                      ClientResponseError, azure's HttpResponseError);
\*                      text is the error's message
\*   exception          any other exception inside the adapter's try block
\*                      (network failure, unparsable body); text is str(e)
\*   no_api_key         API_KEY is not set in the environment
\*   executor_error     loop.run_in_executor itself fails
\*   adapter_raises     the adapter is replaced by a double that raises
Behaviour(k, st, tx) == [kind |-> k, status |-> st, text |-> tx]

\* the substrings sync_azure_call looks for in the lowercased str(e)
RateLimitMarkers ==
    { <<"ratelimitreached">>, <<"rate", " ", "limit">>, <<"429">>,
      <<"quota", " ", "exceeded">>,
      <<"too", " ", "many", " ", "requests">> }

call_api(model, prompt, b) ==
    CASE b.kind = "no_api_key" -> Returned(None, 0)
      [] b.kind = "completion" -> Returned(Str(Strip(b.text)), 1)
      [] b.kind = "http_error" ->
            IF b.status = 429 THEN Returned(RATE_LIMIT_REACHED, 1)
            ELSE Returned(None, 1)
      [] OTHER -> Returned(None, 1)

sync_azure_call(model, prompt, b) ==
    CASE b.kind = "completion" -> Str(Strip(b.text))
      [] b.kind = "http_error" ->
            IF b.status = 429 THEN RATE_LIMIT_REACHED ELSE None
      [] OTHER ->
            LET error_str == Lower(b.text)
            IN  IF \E m \in RateLimitMarkers : Contains(error_str, m)
                THEN RATE_LIMIT_REACHED ELSE None

call_azure_api(model, prompt, b) ==
    CASE b.kind = "executor_error" -> Returned(None, 0)
      [] OTHER -> Returned(sync_azure_call(model, prompt, b), 1)

\* a format_output that re-joins the paragraphs with a single line break
format_output_single_newline(raw_output) ==
    Join(<<"\n">>, Split(raw_output, <<"\n", "\n">>))

format_output(raw_output) ==
    LET paragraphs == Split(raw_output, <<"\n", "\n">>)
    IN  Join(<<"\n", "\n">>, paragraphs)

\* the provider table of process_article: key -> <<api_type, model>>
ApiKeys ==
    { "azure_gpt41", "azure_gpt41_nano", "openrouter_gpt41_nano",
      "openrouter_deepseek", "azure_gpt41_mini", "azure_grok",
      "openrouter_gpt35", "openrouter_gemma", "openrouter_claude3" }

api_mapping ==
    [k \in ApiKeys |->
        CASE k = "azure_gpt41" -> <<"azure", "openai/gpt-4.1">>
          [] k = "azure_gpt41_nano" -> <<"azure", "openai/gpt-4.1-nano">>
          [] k = "openrouter_gpt41_nano" -> <<"openrouter", "openai/gpt-4.1-nano">>
          [] k = "openrouter_deepseek" -> <<"openrouter", "deepseek/deepseek-r1-0528:free">>
          [] k = "azure_gpt41_mini" -> <<"azure", "openai/gpt-4.1-mini">>
          [] k = "azure_grok" -> <<"azure", "xai/grok-3-mini">>
          [] k = "openrouter_gpt35" -> <<"openrouter", "openai/gpt-3.5-turbo">>
          [] k = "openrouter_gemma" -> <<"openrouter", "google/gemma-3-27b-it:free">>
          [] k = "openrouter_claude3" -> <<"openrouter", "anthropic/claude-3-haiku">>]

\* the prompt process_article builds from the article
build_prompt(article) ==
    LET news_text == Replace(article, <<"\n", "\n">>,
                             <<"\n", "\n", "[PARAGRAPH_BREAK]", "\n", "\n">>)
    IN  <<"Original news:", "\n">> \o news_text
            \o <<"\n", "\n", "Rewritten news:", "\n">>

\* One entry of the log of adapter invocations of a process_article call.
Invocation(adapter, model, prompt, r) ==
    [adapter |-> adapter, model |-> model, prompt |-> prompt, yield |-> r]

\* What a process_article call yields: its return value or the exception it
\* raises, and the adapter invocations it made, in order.
PaReturn(v, calls) == [outcome |-> "return", exc |-> "", value |-> v, calls |-> calls]
PaRaise(e, calls) == [outcome |-> "raise", exc |-> e, value |-> None, calls |-> calls]

\* an if/else with its branches exchanged
invoke_adapter_swapped(api_type, model, prompt, b) ==
    IF api_type = "azure"
    THEN [name |-> "call_api",
          r |-> IF b.kind = "adapter_raises" THEN Raised(1)
                ELSE call_api(model, prompt, b)]
    ELSE [name |-> "call_azure_api",
          r |-> IF b.kind = "adapter_raises" THEN Raised(1)
                ELSE call_azure_api(model, prompt, b)]

\* the adapter the if/else of the try block awaits
invoke_adapter(api_type, model, prompt, b) ==
    IF api_type = "azure"
    THEN [name |-> "call_azure_api",
          r |-> IF b.kind = "adapter_raises" THEN Raised(1)
                ELSE call_azure_api(model, prompt, b)]
    ELSE [name |-> "call_api",
          r |-> IF b.kind = "adapter_raises" THEN Raised(1)
                ELSE call_api(model, prompt, b)]

\* a try block without its except clause
normalize_no_except(r, calls) ==
    IF r.outcome = "raise" THEN PaRaise("Exception", calls)
    ELSE IF r.value = RATE_LIMIT_REACHED THEN PaReturn(RATE_LIMIT_REACHED, calls)
    ELSE IF Truthy(r.value) THEN PaReturn(Str(format_output(r.value.s)), calls)
    ELSE PaReturn(None, calls)

\* the rest of the try block and its except clause, given the adapter's yield
normalize(r, calls) ==
    IF r.outcome = "raise" THEN PaReturn(None, calls)
    ELSE IF r.value = RATE_LIMIT_REACHED THEN PaReturn(RATE_LIMIT_REACHED, calls)
    ELSE IF Truthy(r.value) THEN PaReturn(Str(format_output(r.value.s)), calls)
    ELSE PaReturn(None, calls)

\* a process_article that sends a key missing from the table to OpenRouter as
\* the model name instead of rejecting it
process_article_any_key(article, selected_api, b) ==
    LET prompt == build_prompt(article)
        known == selected_api \in DOMAIN api_mapping
        api_type == IF known THEN api_mapping[selected_api][1] ELSE "openrouter"
        model == IF known THEN api_mapping[selected_api][2] ELSE selected_api
        a == invoke_adapter(api_type, model, prompt, b)
    IN  normalize(a.r, <<Invocation(a.name, model, prompt, a.r)>>)

process_article(article, selected_api, b) ==
    LET prompt == build_prompt(article)
    IN  IF selected_api \notin DOMAIN api_mapping
        THEN PaRaise("ValueError", <<>>)
        ELSE LET api_type == api_mapping[selected_api][1]
                 model == api_mapping[selected_api][2]
                 a == invoke_adapter(api_type, model, prompt, b)
             IN  normalize(a.r, <<Invocation(a.name, model, prompt, a.r)>>)

\* -------------------------------------------------------------- publish.py
\* Optional[int]
NoneInt == [kind |-> "None", n |-> 0]
IntVal(n) == [kind |-> "int", n |-> n]

\* a key a JSON object or a dict does not have
Absent == "<absent>"

\* dict.get(key, default) on a field that is Absent or holds a string
GetOr(field, default) == IF field = Absent THEN default ELSE field

\* What get_wordpress_categories yields: the category map (a function from
\* names to ids) or the fact that an exception left it.
\* Behaviour of the CMS during the lookup:
\*   ok                 a 2xx answer whose JSON is a list of categories (data)
\*   RequestException   connection error, timeout, error status, or a body
\*                      that is not JSON
\*   bad_shape          a JSON body that is not a list of objects with name
\*                      and id (KeyError, TypeError)
Lookup(k, data) == [kind |-> k, data |-> data]

\* {cat['name']: cat['id'] for cat in categories_data}: the last entry of a
\* name wins
category_map(categories_data) ==
    [name \in {categories_data[i].name : i \in 1..Len(categories_data)} |->
        LET last == CHOOSE i \in 1..Len(categories_data) :
                      /\ categories_data[i].name = name
                      /\ \A j \in (i + 1)..Len(categories_data) :
                            categories_data[j].name # name
        IN  categories_data[last].id]

get_wordpress_categories(lookup) ==
    CASE lookup.kind = "ok" ->
            [outcome |-> "return", map |-> category_map(lookup.data)]
      [] lookup.kind = "RequestException" -> [outcome |-> "return", map |-> <<>>]
      [] OTHER -> [outcome |-> "raise", map |-> <<>>]

\* title and body of the news text
split_title(news_content) ==
    LET lines == Split1(news_content, <<"\n">>)
    IN  Strip(lines[1])

\* a split at every line break: the body is the second line only
split_body_second_line(news_content) ==
    LET lines == Split(news_content, <<"\n">>)
    IN  IF Len(lines) > 1 THEN Strip(lines[2]) ELSE <<>>

split_body(news_content) ==
    LET lines == Split1(news_content, <<"\n">>)
    IN  IF Len(lines) > 1 THEN Strip(lines[2]) ELSE <<>>

\* the loop over selected_categories_names
RECURSIVE map_categories(_, _)
map_categories(selected_categories_names, wp_categories) ==
    IF selected_categories_names = <<>> THEN <<>>
    ELSE LET cat_name == Head(selected_categories_names)
             rest == map_categories(Tail(selected_categories_names), wp_categories)
         IN  IF cat_name \in DOMAIN wp_categories /\ wp_categories[cat_name] # 0
             THEN <<wp_categories[cat_name]>> \o rest
             ELSE rest

\* keyword_tags, in the order of the dict literal: <<keyword, tag>>.  The
\* Nepali keywords and tags are written in Latin letters, one token each.
keyword_tags ==
    << <<"sun", "sunko bhau">>, <<"chandi", "chandiko bhau">>,
       <<"dollar", "bideshi mudra">>, <<"share", "share bazar">>,
       <<"bank", "banking">>, <<"nirvachan", "nirvachan">>,
       <<"rajniti", "rajniti">>, <<"artha", "arthatantra">>,
       <<"khel", "khelkud">>, <<"football", "khelkud">>,
       <<"cricket", "khelkud">>, <<"mausam", "mausam">>,
       <<"covid", "swasthya">>, <<"swasthya", "swasthya">>,
       <<"shiksha", "shiksha">>, <<"prabidhi", "prabidhi">>,
       <<"Banner", "Banner">> >>

\* x in a list
InList(x, list) == \E i \in 1..Len(list) : list[i] = x

\* the loop over keyword_tags.items(), from entry i on
RECURSIVE auto_tags_from(_, _, _)
auto_tags_from(i, content_lower, selected_tags_names) ==
    IF i > Len(keyword_tags) THEN <<>>
    ELSE LET keyword == keyword_tags[i][1]
             tag == keyword_tags[i][2]
             rest == auto_tags_from(i + 1, content_lower, selected_tags_names)
         IN  IF Contains(content_lower, <<keyword>>)
                  /\ ~ InList(tag, selected_tags_names)
             THEN <<tag>> \o rest
             ELSE rest

\* a scan of the text as written, not lowercased
auto_tags_no_lower(title, body, selected_tags_names) ==
    auto_tags_from(1, title \o <<" ">> \o body, selected_tags_names)

auto_tags(title, body, selected_tags_names) ==
    LET content_lower == Lower(title \o <<" ">> \o body)
    IN  auto_tags_from(1, content_lower, selected_tags_names)

\* list(set(list)): the distinct elements, in the order the set iterates,
\* which depends on the process's string hashing.  hash_order lists every
\* string in that order.
RECURSIVE list_of_set(_, _)
list_of_set(list, hash_order) ==
    IF hash_order = <<>> THEN <<>>
    ELSE IF InList(Head(hash_order), list)
         THEN <<Head(hash_order)>> \o list_of_set(list, Tail(hash_order))
         ELSE list_of_set(list, Tail(hash_order))

\* the JSON payload of the publish POST
Payload(title, body, token, status, catIds, tagNames, image) ==
    [title |-> title, content |-> body, wpToken |-> token,
     post_status |-> status, catIds |-> catIds, tagNames |-> tagNames,
     featured_image_id |-> image]

build_payload(news_data, title, body, category_ids, all_tags_to_send) ==
    Payload(title, body, "WORDPRESS_API_TOKEN", "publish", category_ids,
            all_tags_to_send, news_data.featured_image_id)

\* the dict publish_news_to_wordpress returns
PublishSuccess(permalink) ==
    [status |-> "success", message |-> "News published successfully!",
     detail |-> <<>>, permalink |-> permalink]
PublishError(detail) ==
    [status |-> "error", message |-> Absent, detail |-> detail,
     permalink |-> Absent]

\* Behaviour of the CMS during the publish POST:
\*   response           an HTTP answer: status_code, and json, which is
\*                      a JSON object (kind "object", with its keys status,
\*                      msg, message, permalink), JSON of another type
\*                      (kind "other") or no JSON at all (kind "not_json")
\*   ConnectionError, Timeout, RequestException   the request fails
Json(k, st, msg, message, permalink) ==
    [kind |-> k, status |-> st, msg |-> msg, message |-> message,
     permalink |-> permalink]
NoJson == Json("not_json", Absent, Absent, Absent, Absent)
PostOutcome(k, code, json) == [kind |-> k, status_code |-> code, json |-> json]

\* a handler that trusts the success marker whatever the HTTP status is
handle_post_any_status(post) ==
    CASE post.kind = "ConnectionError" ->
            PublishError(<<"Connection to WordPress failed: ">>)
      [] post.kind = "Timeout" ->
            PublishError(<<"Request to WordPress timed out: ">>)
      [] post.kind = "RequestException" ->
            PublishError(<<"An unexpected request error occurred: ">>)
      [] post.json.kind = "not_json" ->
            PublishError(<<"Invalid JSON response from WordPress: ">>)
      [] post.json.kind = "other" ->
            PublishError(<<"A critical internal error occurred: ">>)
      [] OTHER ->
            IF post.json.status = "success"
            THEN PublishSuccess(post.json.permalink)
            ELSE PublishError(
                   <<GetOr(post.json.msg, "Unknown error from WordPress.")>>)

\* the try block around requests.post: the returned dict
handle_post(post) ==
    CASE post.kind = "ConnectionError" ->
            PublishError(<<"Connection to WordPress failed: ">>)
      [] post.kind = "Timeout" ->
            PublishError(<<"Request to WordPress timed out: ">>)
      [] post.kind = "RequestException" ->
            PublishError(<<"An unexpected request error occurred: ">>)
      [] OTHER ->
            IF post.status_code = 200
            THEN CASE post.json.kind = "not_json" ->
                        PublishError(<<"Invalid JSON response from WordPress: ">>)
                   [] post.json.kind = "other" ->
                        PublishError(<<"A critical internal error occurred: ">>)
                   [] OTHER ->
                        IF post.json.status = "success"
                        THEN PublishSuccess(post.json.permalink)
                        ELSE PublishError(
                               <<GetOr(post.json.msg, "Unknown error from WordPress.")>>)
            ELSE CASE post.json.kind = "not_json" ->
                        PublishError(<<"WordPress API error (non-JSON response): ">>)
                   [] post.json.kind = "other" ->
                        PublishError(<<"A critical internal error occurred: ">>)
                   [] OTHER ->
                        PublishError(<<"WordPress API error: ",
                                       GetOr(post.json.message, "Unknown error")>>)

\* What a publish_news_to_wordpress call yields: the dict it returns or the
\* fact that an exception left it, the number of category lookups it sent
\* and the payloads it posted, in order.
PubReturn(result, gets, posts) ==
    [outcome |-> "return", result |-> result, gets |-> gets, posts |-> posts]
PubRaise(gets, posts) ==
    [outcome |-> "raise", result |-> PublishError(<<>>), gets |-> gets, posts |-> posts]

\* publish_news_to_wordpress from the title/body split on, given the
\* category map and the number of lookups sent
publish_from_split(news_data, w, wp_categories, gets) ==
    LET title == split_title(news_data.news)
        body == split_body(news_data.news)
    IN  IF title = <<>> \/ body = <<>>
        THEN PubReturn(
               PublishError(<<"News content must contain both a title and a body.">>),
               gets, <<>>)
        ELSE LET category_ids == map_categories(news_data.categories, wp_categories)
                 all_tags_to_send ==
                    list_of_set(news_data.tags \o auto_tags(title, body, news_data.tags),
                                w.hash_order)
                 payload == build_payload(news_data, title, body, category_ids,
                                          all_tags_to_send)
             IN  PubReturn(handle_post(w.post), gets, <<payload>>)

\* w: the environment variables that are set, the behaviour of the CMS
\* during the lookup and the POST, and the string hash order
publish_news_to_wordpress(news_data, w) ==
    IF ~ w.site_url
    THEN PubReturn(PublishError(<<"WORDPRESS_SITE_URL not set.">>), 0, <<>>)
    ELSE IF ~ w.api_token
    THEN PubReturn(PublishError(<<"WORDPRESS_API_TOKEN not set.">>), 0, <<>>)
    ELSE IF ~ w.app_password
    THEN publish_from_split(news_data, w, <<>>, 0)
    ELSE LET c == get_wordpress_categories(w.lookup)
         IN  IF c.outcome = "raise" THEN PubRaise(1, <<>>)
             ELSE publish_from_split(news_data, w, c.map, 1)

\* --------------------------------------------------------------- routes.py
\* An HTTP response: the status code, the detail of an HTTPException, the
\* keys of a 200 answer (rewritten_news of /rewrite, message and permalink
\* of /publish) and the value of the Set-Cookie header for app_session
\* (None: no such header).
Response(st, detail, text) ==
    [status |-> st, detail |-> detail, rewritten_news |-> text,
     message |-> Absent, permalink |-> Absent, set_cookie |-> None]

Published(message, permalink) ==
    [status |-> 200, detail |-> <<>>, rewritten_news |-> None,
     message |-> message, permalink |-> permalink, set_cookie |-> None]

\* a 200 answer with a message and a Set-Cookie header
WithCookie(message, cookie) ==
    [status |-> 200, detail |-> <<>>, rewritten_news |-> None,
     message |-> message, permalink |-> Absent, set_cookie |-> cookie]

\* response.delete_cookie: the cookie is set to the empty string and expired
DeletedCookie == Str(<<>>)

NoResponse == Response(0, <<>>, None)

\* no publish_news_to_wordpress call was made
NoPub == [outcome |-> "none", result |-> PublishError(<<>>), gets |-> 0, posts |-> <<>>]

\* no process_article call was made
NoPa == [outcome |-> "none", exc |-> "", value |-> None, calls |-> <<>>]

\* a check that compares the cookie with the token and nothing else
verify_authentication_no_empty_check(cookie, valid_token) ==
    cookie.kind = "str" /\ cookie.s = valid_token

\* verify_authentication: TRUE when the dependency lets the request through,
\* FALSE when it raises the 302 HTTPException
verify_authentication(cookie, valid_token) ==
    ~ (~ Truthy(cookie) \/ cookie.s # valid_token)

NotAuthenticated == Response(302, <<"Not authenticated">>, None)

\* a handler without the 429 branch
rewrite_rate_limit_as_failure(news, api, b) ==
    IF Strip(news) = <<>>
    THEN [response |-> Response(400, <<"News content cannot be empty">>, None),
          pa |-> NoPa]
    ELSE LET result == process_article(news, api, b)
         IN  [pa |-> result,
              response |->
                IF result.outcome = "return" /\ Truthy(result.value)
                THEN Response(200, <<>>, result.value)
                ELSE Response(500, <<"No content returned.">>, None)]

\* the body of the /rewrite handler: the response and the process_article
\* call it made
rewrite(news, api, b) ==
    IF Strip(news) = <<>>
    THEN [response |-> Response(400, <<"News content cannot be empty">>, None),
          pa |-> NoPa]
    ELSE LET result == process_article(news, api, b)
         IN  [pa |-> result,
              response |->
                IF result.outcome = "raise"
                THEN Response(500, <<"An unexpected error occurred during news rewriting.">>, None)
                ELSE IF result.value = RATE_LIMIT_REACHED
                THEN Response(429, <<"Rate limit reached">>, None)
                ELSE IF Truthy(result.value)
                THEN Response(200, <<>>, result.value)
                ELSE Response(500, <<"No content returned.">>, None)]

\* the body of the /publish handler: the response and the
\* publish_news_to_wordpress call it made
publish(body, w) ==
    IF Strip(body.news) = <<>>
    THEN [response |-> Response(400, <<"News content cannot be empty">>, None),
          pub |-> NoPub]
    ELSE LET publish_data ==
                [news |-> body.news, featured_image_id |-> body.featured_image_id,
                 categories |-> body.categories, tags |-> body.tags,
                 post_status |-> body.post_status]
             result == publish_news_to_wordpress(publish_data, w)
         IN  [pub |-> result,
              response |->
                IF result.outcome = "raise"
                THEN Response(500, <<"An unexpected error occurred during news publishing.">>, None)
                ELSE IF result.result.status = "success"
                THEN Published(result.result.message, result.result.permalink)
                ELSE Response(500, <<"Publishing failed: ">> \o result.result.detail, None)]

\* the settings config.py loads: its validator refuses to start the
\* application unless each of these is set (and the hash well formed)
settings ==
    [WORDPRESS_SITE_URL |-> TRUE, WORDPRESS_APP_PASSWORD |-> TRUE,
     ACCESS_PASSWORD_HASH |-> TRUE]

\* the password whose bcrypt hash is ACCESS_PASSWORD_HASH
AccessPassword == "secret"

\* bcrypt.verify(password, stored_password_hash)
bcrypt_verify(password) == password = AccessPassword

\* with open(SESSION_TOKEN_FILE, "w") as f: f.write(token), inside
\* try/except IOError.  outcome: "ok"; "open_fails" (the file is left as it
\* was); "write_fails" (open has truncated the file, the write is lost)
write_token_file(content, token, outcome) ==
    CASE outcome = "ok" -> token
      [] outcome = "open_fails" -> content
      [] OTHER -> <<>>

\* the attributes main.py sets on app.state.  It sets no attribute named
\* settings, so reading request.app.state.settings raises AttributeError.
app_state == {"valid_session_token", "access_password_hash"}

\* the answer to a request whose handler lets an exception other than
\* HTTPException escape
InternalServerError == Response(500, <<"Internal Server Error">>, None)

\* the body of the /login handler: the response, the valid session token and
\* the content of the token file after it, and the number of tokens it
\* generated.  fresh is the value secrets.token_urlsafe returns.  Its first
\* statement reads request.app.state.settings.
perform_login(password, token, content, fresh, outcome) ==
    IF "settings" \notin app_state
    THEN [response |-> InternalServerError,
          token |-> token, content |-> content, generated |-> 0]
    ELSE IF ~ settings.ACCESS_PASSWORD_HASH
    THEN [response |-> Response(500, <<"Password hash not set.">>, None),
          token |-> token, content |-> content, generated |-> 0]
    ELSE IF bcrypt_verify(password)
    THEN [response |-> WithCookie("Login successful", Str(fresh)),
          token |-> fresh,
          content |-> write_token_file(content, fresh, outcome),
          generated |-> 1]
    ELSE [response |-> Response(401, <<"Invalid password.">>, None),
          token |-> token, content |-> content, generated |-> 0]

\* the body of the /logout handler.  It replaces the token in memory, then
\* reads request.app.state.settings inside a try block that catches IOError
\* only.
perform_logout(token, content, fresh, outcome) ==
    IF "settings" \notin app_state
    THEN [response |-> InternalServerError,
          token |-> fresh, content |-> content, generated |-> 1]
    ELSE [response |-> WithCookie("Logout successful", DeletedCookie),
          token |-> fresh,
          content |-> write_token_file(content, fresh, outcome),
          generated |-> 1]

\* the body of the / handler: index_found tells whether get_html_file_path
\* finds index.html
home(index_found) ==
    IF index_found THEN Response(200, <<>>, None)
    ELSE Response(500, <<"Frontend application file not found.">>, None)

\* no get_wordpress_categories call was made by the /wp-categories handler
NoWp == [outcome |-> "none", map |-> <<>>, gets |-> 0]

\* the body of the /wp-categories handler: the response and the
\* get_wordpress_categories call it made (the 200 answer lists wp.map)
get_categories_from_wp_route(lookup) ==
    LET c == get_wordpress_categories(lookup)
    IN  [wp |-> [outcome |-> c.outcome, map |-> c.map, gets |-> 1],
         response |->
            IF c.outcome = "raise"
            THEN Response(500, <<"Failed to fetch categories from WordPress: ">>, None)
            ELSE Response(200, <<>>, None)]

\* the file of an upload-image request: file.filename and file.content_type
\* (<<>>: not given)
UploadFile(filename, content_type) ==
    [filename |-> filename, content_type |-> content_type]

\* os.path.splitext(name)[1], for names whose last token is their extension
Extensions == {".png", ".jpg"}
splitext(name) ==
    IF name # <<>> /\ name[Len(name)] \in Extensions
    THEN <<name[Len(name)]>> ELSE <<>>

\* original_filename and file_extension of upload_image
original_filename(file) ==
    IF file.filename # <<>> THEN file.filename ELSE <<"uploaded_file">>

file_extension(file) ==
    LET ext == splitext(original_filename(file))
    IN  IF ext # <<>> THEN ext
        ELSE IF file.content_type # <<>>
                  /\ StartsWith(file.content_type, <<"image", "/">>)
        THEN <<".">> \o Split(file.content_type, <<"/">>)[2]
        ELSE <<".bin">>

\* temp_filename: uuid is the value of uuid.uuid4()
temp_filename(file, uuid) == <<uuid>> \o file_extension(file)

\* Behaviour of the CMS during the media POST:
\*   response           an HTTP answer: status_code, and json, "object" (with
\*                      its keys id and message), "other" or "not_json"
\*   RequestException   the request fails (connection error, timeout)
MediaAnswer(k, code, json, id, message) ==
    [kind |-> k, status_code |-> code, json |-> json, id |-> id,
     message |-> message]

\* the 200 answer of upload_image
Uploaded(id) ==
    [response |-> [Response(200, <<>>, None) EXCEPT
                     !.message = "Image uploaded successfully"],
     media_id |-> id]

UploadFailed(st, detail) ==
    [response |-> Response(st, detail, None), media_id |-> Absent]

\* upload_image from the answer to requests.post to the end of its except
\* clauses.  A 201 answer whose body is not JSON makes wp_response.json()
\* raise (a RequestException).  After another status the handler raises
\* HTTPException(status_code=wp_response.status_code) inside the try block
\* (or NameError, as routes.py does not import json, when the body is not
\* JSON); either is caught by "except Exception", which raises a 500.
upload_answer(answer) ==
    CASE answer.kind = "RequestException" ->
            UploadFailed(500, <<"Failed to connect to WordPress: ">>)
      [] answer.status_code = 201 ->
            CASE answer.json = "object" -> Uploaded(answer.id)
              [] answer.json = "not_json" ->
                    UploadFailed(500, <<"Failed to connect to WordPress: ">>)
              [] OTHER -> UploadFailed(500, <<"An unexpected error occurred: ">>)
      [] OTHER -> UploadFailed(500, <<"An unexpected error occurred: ">>)

\* a file of the temp-upload directory: its name and whose bytes it holds
TempFile(name, content) == [name |-> name, content |-> content]

\* os.path.exists(temp_file_path)
exists(dir, temp_file_path) ==
    temp_file_path.kind = "str" /\ \E f \in dir : f.name = temp_file_path.s

\* open(temp_file_path, "wb") and buffer.write(file_content): the directory
\* afterwards.  outcome: "ok"; "open_fails" (no file is made); "write_fails"
\* (the file is made, the write raises)
write_temp_file(dir, name, content, outcome) ==
    IF outcome = "open_fails" THEN dir
    ELSE {f \in dir : f.name # name} \cup {TempFile(name, content)}

\* a clean-up that runs only after a 200 answer
cleanup_on_success(dir, temp_file_path, status, outcome) ==
    IF status = 200 /\ Truthy(temp_file_path) /\ exists(dir, temp_file_path)
         /\ outcome = "ok"
    THEN {f \in dir : f.name # temp_file_path.s}
    ELSE dir

\* the finally block of upload_image: the directory afterwards.  outcome
\* tells whether os.remove succeeds ("ok") or raises ("remove_fails"); status
\* is the status of the response being sent
cleanup(dir, temp_file_path, status, outcome) ==
    IF Truthy(temp_file_path) /\ exists(dir, temp_file_path) /\ outcome = "ok"
    THEN {f \in dir : f.name # temp_file_path.s}
    ELSE dir

\* ------------------------------------------------------------ input sets
ArticleTexts == SeqsUpTo({"a", "\n"}, MaxArticleLen)

\* keys a client may send: the nine of the table and two that are not in it
RequestedApis == ApiKeys \cup {"", "gpt5"}

CompletionTexts == SeqsUpTo({"a", "\n", "RATE_LIMIT_REACHED"}, MaxCompletionLen)

Messages ==
    { <<"boom">>, <<"Rate", " ", "Limit">>, <<"rate", "limit">>,
      <<"error", " ", "429">>, <<"Quota", " ", "Exceeded">>,
      <<"Too", " ", "Many", " ", "Requests">>, <<"RateLimitReached">> }

AzureBehaviours ==
    {Behaviour("completion", 200, c) : c \in CompletionTexts}
    \cup {Behaviour("http_error", st, m) :
            st \in {429, 500}, m \in {<<"boom">>, <<"error", " ", "429">>}}
    \cup {Behaviour("exception", 0, m) : m \in Messages}
    \cup {Behaviour("executor_error", 0, <<>>), Behaviour("adapter_raises", 0, <<>>)}

OpenRouterBehaviours ==
    {Behaviour("completion", 200, c) : c \in CompletionTexts}
    \cup {Behaviour("http_error", st, <<"boom">>) : st \in {429, 500}}
    \cup {Behaviour("exception", 0, m) : m \in {<<"boom">>, <<"error", " ", "429">>}}
    \cup {Behaviour("no_api_key", 0, <<>>), Behaviour("adapter_raises", 0, <<>>)}

\* the behaviours of the backend a key selects; no backend is reached for a
\* key outside the table
BehavioursFor(api) ==
    IF api \notin ApiKeys THEN {Behaviour("unreached", 0, <<>>)}
    ELSE IF api_mapping[api][1] = "azure" THEN AzureBehaviours
    ELSE OpenRouterBehaviours

\* The /rewrite calls explored: every article with every key under a few
\* behaviours (ArticleCalls), and one article with every key under every
\* behaviour of its backend (BackendCalls; the article reaches the adapters
\* only inside the prompt).
RewriteCall(news, api, b) == [news |-> news, api |-> api, world |-> b]

FewBehaviours ==
    { Behaviour("completion", 200, <<"a">>), Behaviour("http_error", 429, <<"boom">>),
      Behaviour("exception", 0, <<"boom">>), Behaviour("adapter_raises", 0, <<>>) }

ArticleCalls ==
    {RewriteCall(news, api, b) :
        news \in ArticleTexts, api \in RequestedApis, b \in FewBehaviours}

BackendCalls ==
    UNION {{RewriteCall(<<"a">>, api, b) : b \in BehavioursFor(api)} :
              api \in RequestedApis}

\* the body of a /publish request (models.PublishRequest)
PublishBody(news, image, categories, tags, post_status) ==
    [news |-> news, featured_image_id |-> image, categories |-> categories,
     tags |-> tags, post_status |-> post_status]

\* the world during a publish call
World(site_url, api_token, app_password, lookup, post, hash_order) ==
    [site_url |-> site_url, api_token |-> api_token, app_password |-> app_password,
     lookup |-> lookup, post |-> post, hash_order |-> hash_order]

NewsTexts == SeqsUpTo({"\n", " ", "khel"}, MaxNewsLen)

\* news texts of one title word and a body of up to MaxBodyWords words
Words == {"khel", "football", "sun", "Banner", "x"}
WordedNews ==
    {<<t, "\n">> \o b : t \in Words, b \in SeqsUpTo(Words, MaxBodyWords) \ {<<>>}}

TagNames == {"khelkud", "Banner", "breaking"}
TagLists == SeqsUpTo(TagNames, MaxTags)

CategoryNames == {"News", "Sports"}
CategoryLists == SeqsUpTo(CategoryNames, MaxCats)

\* what the CMS may list: a name and an id per category
WpCategories == SeqsUpTo([name : CategoryNames, id : {0, 3, 7}], MaxWpCats)

Lookups ==
    {Lookup("ok", data) : data \in WpCategories}
    \cup {Lookup("RequestException", <<>>), Lookup("bad_shape", <<>>)}

SomeCategories == <<[name |-> "News", id |-> 3], [name |-> "Sports", id |-> 7]>>

JsonBodies ==
    { Json("object", "success", Absent, Absent, "https://cms/p1"),
      Json("object", "success", Absent, Absent, Absent),
      Json("object", "error", "denied", Absent, Absent),
      Json("object", "error", Absent, "rest_forbidden", Absent),
      Json("object", Absent, Absent, Absent, Absent),
      Json("other", Absent, Absent, Absent, Absent),
      NoJson }

PostOutcomes ==
    {PostOutcome("response", code, j) : code \in {200, 201, 403, 500}, j \in JsonBodies}
    \cup {PostOutcome(k, 0, NoJson) : k \in {"ConnectionError", "Timeout", "RequestException"}}

Published200 ==
    PostOutcome("response", 200, Json("object", "success", Absent, Absent, "https://cms/p1"))

\* two iteration orders of a set of tag names: every tag of keyword_tags and
\* every requested tag, in one order and in the reverse order
SomeHashOrder ==
    << "breaking", "sunko bhau", "chandiko bhau", "bideshi mudra",
       "share bazar", "banking", "nirvachan", "rajniti", "arthatantra",
       "khelkud", "mausam", "swasthya", "shiksha", "prabidhi", "Banner" >>

Reverse(s) == [i \in 1..Len(s) |-> s[Len(s) + 1 - i]]

HashOrders == {SomeHashOrder, Reverse(SomeHashOrder)}

\* The /publish calls explored: every news text (SplitCalls, the title/body
\* split); every worded text with every tag list (TagCalls, tag inference);
\* every category list with every category lookup (CategoryCalls); and the
\* settings of the environment, the post status and the image with every
\* answer of the CMS (CmsCalls).
PublishCall(body, w) == [body |-> body, world |-> w]

SplitCalls ==
    {PublishCall(PublishBody(news, NoneInt, <<"News">>, <<>>, "publish"),
                 World(TRUE, TRUE, app_password, Lookup("ok", SomeCategories),
                       Published200, h)) :
        news \in NewsTexts, app_password \in BOOLEAN, h \in HashOrders}

TagCalls ==
    {PublishCall(PublishBody(news, NoneInt, <<>>, tags, "publish"),
                 World(TRUE, TRUE, TRUE, Lookup("ok", SomeCategories),
                       Published200, h)) :
        news \in WordedNews, tags \in TagLists, h \in HashOrders}

CategoryCalls ==
    {PublishCall(PublishBody(news, NoneInt, categories, <<>>, "publish"),
                 World(TRUE, TRUE, app_password, lookup, Published200, SomeHashOrder)) :
        news \in {<<"x", "\n", "x">>, <<"x">>}, categories \in CategoryLists,
        app_password \in BOOLEAN, lookup \in Lookups}

CmsCalls ==
    {PublishCall(PublishBody(news, image, <<"News">>, <<"breaking">>, post_status),
                 World(env[1], env[2], env[3], lookup, post, SomeHashOrder)) :
        news \in {<<"x", "\n", "x">>, <<"x">>},
        image \in {NoneInt, IntVal(7)},
        post_status \in {"publish", "draft"},
        env \in { <<TRUE, TRUE, TRUE>>, <<FALSE, TRUE, TRUE>>,
                  <<TRUE, FALSE, TRUE>>, <<TRUE, TRUE, FALSE>> },
        lookup \in { Lookup("ok", SomeCategories), Lookup("RequestException", <<>>),
                     Lookup("bad_shape", <<>>) },
        post \in PostOutcomes}

\* the cookie a client of the content routes holds: none, the one of the
\* session, an old one
SessionCookie == Str(<<"tok1">>)
Cookies == {None, SessionCookie, Str(<<"stale">>)}

\* the values secrets.token_urlsafe returns, in the order it returns them:
\* no two are equal
TokenNames == <<"tok1", "tok2", "tok3", "tok4", "tok5", "tok6">>
Token(n) == <<TokenNames[n]>>

\* what the token file may hold when the application starts: nothing (a
\* write that failed has emptied it) or a token
TokenFiles == {<<>>, Token(1)}

\* the cookie a client may send: none, the empty string, one that was never
\* valid, any token ever generated
ClientCookies ==
    {None, Str(<<>>), Str(<<"stale">>)} \cup {Str(Token(n)) : n \in 1..MaxTokens}

Passwords == {AccessPassword, "guess"}

\* outcomes of writing the token file
FileWrites == {"ok", "open_fails", "write_fails"}

\* the /rewrite and /publish calls of the session specification
SessionRewriteCalls ==
    {RewriteCall(<<"a">>, "azure_gpt41", b) : b \in FewBehaviours}

SessionPublishCalls ==
    {PublishCall(PublishBody(<<"x", "\n", "x">>, NoneInt, <<"News">>, <<>>, "publish"),
                 World(TRUE, TRUE, TRUE, Lookup("ok", SomeCategories), post,
                       SomeHashOrder)) :
        post \in {Published200, PostOutcome("ConnectionError", 0, NoJson)}}

SessionLookups ==
    {Lookup("ok", SomeCategories), Lookup("RequestException", <<>>),
     Lookup("bad_shape", <<>>)}

\* the files uploaded
UploadFiles ==
    { UploadFile(<<"a", ".png">>, <<"image", "/", "png">>),
      UploadFile(<<>>, <<"image", "/", "jpeg">>),
      UploadFile(<<>>, <<>>) }

\* the answers of the CMS to the media POST
MediaAnswers ==
    { MediaAnswer("response", 201, "object", "42", Absent),
      MediaAnswer("response", 201, "not_json", Absent, Absent),
      MediaAnswer("response", 403, "object", Absent, "rest_forbidden"),
      MediaAnswer("response", 413, "not_json", Absent, Absent),
      MediaAnswer("RequestException", 0, "not_json", Absent, Absent) }

\* the values uuid.uuid4() returns, by the number of the request it
\* returns them to: no two are equal
UuidNames == <<"uuid1", "uuid2", "uuid3", "uuid4">>

\* outcomes of writing and of removing a temp file
TempWrites == {"ok", "open_fails", "write_fails"}
Removals == {"ok", "remove_fails"}

\* no media POST was sent
NoAnswer == MediaAnswer("none", 0, "not_json", Absent, Absent)

\* An upload-image request: where it is in the handler, its cookie and the
\* valid session token when it arrived, its file, temp_file_path, whose
\* bytes it sent to the CMS (0: none), the outcome of its media POST
\* (wp_response), the number of media POSTs it sent, what became of
\* os.remove ("": not called), and its response.
NoUpload ==
    [pc |-> "idle", cookie |-> None, valid_token |-> <<>>,
     file |-> UploadFile(<<>>, <<>>), temp_file_path |-> None, sent |-> 0,
     wp_response |-> NoAnswer, posts |-> 0, removed |-> "",
     response |-> NoResponse, media_id |-> Absent]

\* ------------------------------------------------------------------ state
VARIABLES
    valid_session_token,  \* app.state.valid_session_token
    session_token_file,   \* the content of SESSION_TOKEN_FILE
    issued,               \* the number of tokens generated so far
    request,              \* the HTTP request being answered, or NoRequest
    response,             \* the response to it
    pa,                   \* the process_article call made for it
    pub,                  \* the publish_news_to_wordpress call made for it
    wp,                   \* the get_wordpress_categories call /wp-categories made
    uploads,              \* the upload-image requests, by request number
    temp_uploads          \* the files of TEMP_UPLOAD_DIR

sessionVars == <<valid_session_token, session_token_file, issued>>
atomVars == <<request, response, pa, pub, wp>>
uploadVars == <<uploads, temp_uploads>>

vars == <<valid_session_token, session_token_file, issued, request, response,
          pa, pub, wp, uploads, temp_uploads>>

Request(route, cookie, body, world) ==
    [route |-> route, cookie |-> cookie, body |-> body, world |-> world]

NoRequest == Request("", None, <<>>, <<>>)

\* main.py: the token is read from the token file when it exists, else it
\* is generated and written to the file
Init ==
    /\ \/ /\ session_token_file \in TokenFiles
          /\ valid_session_token = Strip(session_token_file)
       \/ /\ valid_session_token = Token(1)
          /\ session_token_file = valid_session_token
    /\ issued = 1
    /\ request = NoRequest
    /\ response = NoResponse
    /\ pa = NoPa
    /\ pub = NoPub
    /\ wp = NoWp
    /\ uploads = [u \in 1..MaxUploads |-> NoUpload]
    /\ temp_uploads = {}

\* POST /rewrite, with the cookie and the call drawn from cookies and calls
serve_rewrite(cookies, calls) ==
    /\ request = NoRequest
    /\ \E cookie \in cookies, c \in calls :
            /\ request' = Request("/rewrite", cookie, [news |-> c.news, api |-> c.api], c.world)
            /\ IF verify_authentication(cookie, valid_session_token)
               THEN \E h \in {rewrite(c.news, c.api, c.world)} :
                        response' = h.response /\ pa' = h.pa
               ELSE response' = NotAuthenticated /\ pa' = NoPa
    /\ UNCHANGED <<sessionVars, pub, wp, uploadVars>>

post_rewrite ==
    \/ serve_rewrite(Cookies, ArticleCalls)
    \/ serve_rewrite({SessionCookie}, BackendCalls)

\* POST /publish, with the cookie and the call drawn from cookies and calls
serve_publish(cookies, calls) ==
    /\ request = NoRequest
    /\ \E cookie \in cookies, c \in calls :
            /\ request' = Request("/publish", cookie, c.body, c.world)
            /\ IF verify_authentication(cookie, valid_session_token)
               THEN \E h \in {publish(c.body, c.world)} :
                        response' = h.response /\ pub' = h.pub
               ELSE response' = NotAuthenticated /\ pub' = NoPub
    /\ UNCHANGED <<sessionVars, pa, wp, uploadVars>>

post_publish ==
    \/ serve_publish({SessionCookie}, SplitCalls)
    \/ serve_publish({SessionCookie}, TagCalls)
    \/ serve_publish({SessionCookie}, CategoryCalls)
    \/ serve_publish(Cookies, CmsCalls)

\* the response is sent; the server is ready for the next request
respond ==
    /\ request # NoRequest
    /\ request' = NoRequest
    /\ response' = NoResponse
    /\ pa' = NoPa
    /\ pub' = NoPub
    /\ wp' = NoWp
    /\ UNCHANGED <<sessionVars, uploadVars>>

Next == post_rewrite \/ post_publish \/ respond

Spec == Init /\ [][Next]_vars

\* POST /login.  The handler has no authentication dependency.
post_login ==
    /\ request = NoRequest
    /\ \E cookie \in ClientCookies, password \in Passwords, outcome \in FileWrites :
            /\ bcrypt_verify(password) => issued < MaxTokens
            /\ request' = Request("/login", cookie, [password |-> password],
                                  [write |-> outcome])
            /\ \E h \in {perform_login(password, valid_session_token,
                                       session_token_file, Token(issued + 1), outcome)} :
                    /\ response' = h.response
                    /\ valid_session_token' = h.token
                    /\ session_token_file' = h.content
                    /\ issued' = issued + h.generated
    /\ UNCHANGED <<pa, pub, wp, uploadVars>>

\* POST /logout.  The handler has no authentication dependency.
post_logout ==
    /\ request = NoRequest
    /\ issued < MaxTokens
    /\ \E cookie \in ClientCookies, outcome \in FileWrites :
            /\ request' = Request("/logout", cookie, <<>>, [write |-> outcome])
            /\ \E h \in {perform_logout(valid_session_token, session_token_file,
                                        Token(issued + 1), outcome)} :
                    /\ response' = h.response
                    /\ valid_session_token' = h.token
                    /\ session_token_file' = h.content
                    /\ issued' = issued + h.generated
    /\ UNCHANGED <<pa, pub, wp, uploadVars>>

\* GET /
get_home ==
    /\ request = NoRequest
    /\ \E cookie \in ClientCookies, index_found \in BOOLEAN :
            /\ request' = Request("/", cookie, <<>>, [index_found |-> index_found])
            /\ response' = IF verify_authentication(cookie, valid_session_token)
                           THEN home(index_found) ELSE NotAuthenticated
    /\ UNCHANGED <<sessionVars, pa, pub, wp, uploadVars>>

\* GET /wp-categories
get_wp_categories ==
    /\ request = NoRequest
    /\ \E cookie \in ClientCookies, lookup \in SessionLookups :
            /\ request' = Request("/wp-categories", cookie, <<>>, lookup)
            /\ IF verify_authentication(cookie, valid_session_token)
               THEN \E h \in {get_categories_from_wp_route(lookup)} :
                        response' = h.response /\ wp' = h.wp
               ELSE response' = NotAuthenticated /\ wp' = NoWp
    /\ UNCHANGED <<sessionVars, pa, pub, uploadVars>>

\* POST /upload-image arrives: the authentication dependency and the check
\* of the settings
upload_arrive(u, cookies) ==
    /\ uploads[u].pc = "idle"
    /\ \E cookie \in cookies :
          LET r == [uploads[u] EXCEPT !.cookie = cookie,
                                      !.valid_token = valid_session_token]
          IN  uploads' = [uploads EXCEPT ![u] =
                IF ~ verify_authentication(cookie, valid_session_token)
                THEN [r EXCEPT !.pc = "done", !.response = NotAuthenticated]
                ELSE IF ~ settings.WORDPRESS_SITE_URL
                          \/ ~ settings.WORDPRESS_APP_PASSWORD
                THEN [r EXCEPT !.pc = "done",
                               !.response = Response(500,
                                   <<"WordPress credentials missing.">>, None)]
                ELSE [r EXCEPT !.pc = "read"]]
    /\ UNCHANGED <<sessionVars, atomVars, temp_uploads>>

\* await file.read(): the file arrives, or reading it raises
upload_read(u) ==
    /\ uploads[u].pc = "read"
    /\ \/ \E file \in UploadFiles :
            uploads' = [uploads EXCEPT ![u].pc = "write", ![u].file = file]
       \/ uploads' = [uploads EXCEPT ![u].pc = "finally",
                         ![u].response = UploadFailed(500,
                             <<"An unexpected error occurred: ">>).response]
    /\ UNCHANGED <<sessionVars, atomVars, temp_uploads>>

\* the temp file is named and written
upload_write(u) ==
    /\ uploads[u].pc = "write"
    /\ LET name == temp_filename(uploads[u].file, UuidNames[u])
       IN  \E outcome \in TempWrites :
            /\ temp_uploads' = write_temp_file(temp_uploads, name, u, outcome)
            /\ uploads' = [uploads EXCEPT ![u] =
                 IF outcome = "ok"
                 THEN [@ EXCEPT !.temp_file_path = Str(name), !.pc = "post"]
                 ELSE [@ EXCEPT !.temp_file_path = Str(name), !.pc = "finally",
                                !.response = UploadFailed(500,
                                    <<"An unexpected error occurred: ">>).response]]
    /\ UNCHANGED <<sessionVars, atomVars>>

\* the temp file is opened again and sent to the CMS; the response is
\* decided
upload_post(u) ==
    /\ uploads[u].pc = "post"
    /\ IF ~ exists(temp_uploads, uploads[u].temp_file_path)
       THEN uploads' = [uploads EXCEPT ![u].pc = "finally",
                          ![u].response = UploadFailed(500,
                              <<"An unexpected error occurred: ">>).response]
       ELSE \E answer \in MediaAnswers :
              LET f == CHOOSE f \in temp_uploads :
                          f.name = uploads[u].temp_file_path.s
                  a == upload_answer(answer)
              IN  uploads' = [uploads EXCEPT ![u] =
                    [@ EXCEPT !.pc = "finally", !.sent = f.content,
                              !.wp_response = answer, !.posts = 1,
                              !.response = a.response, !.media_id = a.media_id]]
    /\ UNCHANGED <<sessionVars, atomVars, temp_uploads>>

\* the finally block; then the response is sent
upload_finally(u) ==
    /\ uploads[u].pc = "finally"
    /\ IF exists(temp_uploads, uploads[u].temp_file_path)
       THEN \E outcome \in Removals :
              /\ temp_uploads' = cleanup(temp_uploads, uploads[u].temp_file_path,
                                         uploads[u].response.status, outcome)
              /\ uploads' = [uploads EXCEPT ![u].pc = "done",
                                            ![u].removed = outcome]
       ELSE /\ uploads' = [uploads EXCEPT ![u].pc = "done"]
            /\ UNCHANGED temp_uploads
    /\ UNCHANGED <<sessionVars, atomVars>>

\* one step of the upload-image request u, whose cookie is one of cookies
upload_image(u, cookies) ==
    \/ upload_arrive(u, cookies) \/ upload_read(u) \/ upload_write(u)
    \/ upload_post(u) \/ upload_finally(u)

\* concurrent upload-image requests
NextUpload == \E u \in 1..MaxUploads : upload_image(u, Cookies)

SpecUpload == Init /\ [][NextUpload]_vars

session_rewrite == serve_rewrite(ClientCookies, SessionRewriteCalls)

session_publish == serve_publish(ClientCookies, SessionPublishCalls)

NextSession ==
    \/ post_login \/ post_logout \/ get_home \/ get_wp_categories
    \/ session_rewrite \/ session_publish \/ upload_image(1, ClientCookies)
    \/ respond

\* the application with its session routes
SpecSession == Init /\ [][NextSession]_vars

\* ------------------------------------------------------------- properties
\* the request in flight passed the authentication dependency
Authenticated == verify_authentication(request.cookie, valid_session_token)

\* a process_article call was made for the request in flight
PaCalled == request.route = "/rewrite" /\ pa.outcome # "none"

\* the three outcomes of the dispatcher
IsSuccess(p) ==
    /\ p.outcome = "return" /\ p.value.kind = "str"
    /\ p.value.s # <<>> /\ p.value # RATE_LIMIT_REACHED
IsRateLimited(p) == p.outcome = "return" /\ p.value = RATE_LIMIT_REACHED
IsFailure(p) == p.outcome = "return" /\ p.value = None

\* C1: for a non-empty article and a key of the provider table, whatever the
\* invoked adapter does (text, sentinel, None, exception), process_article
\* returns exactly one of Success (a non-empty string), RateLimited (the
\* sentinel) or Failure (None), and never raises.
C1_ThreeOutcomes ==
    (PaCalled /\ request.body.news # <<>> /\ request.body.api \in ApiKeys)
        => /\ pa.outcome = "return"
           /\ Cardinality({k \in {"success", "ratelimited", "failure"} :
                  \/ k = "success" /\ IsSuccess(pa)
                  \/ k = "ratelimited" /\ IsRateLimited(pa)
                  \/ k = "failure" /\ IsFailure(pa)}) = 1

\* C1 witness: the adapter raised and process_article returned Failure
C1_Witness ==
    /\ PaCalled /\ request.body.api \in ApiKeys
    /\ request.world.kind = "adapter_raises"
    /\ pa.calls[1].yield.outcome = "raise"
    /\ IsFailure(pa)

\* C2: for a key that is not in the provider table process_article raises
\* ValueError and invokes no adapter.
C2_UnknownKeyFailsFast ==
    (PaCalled /\ request.body.api \notin ApiKeys)
        => pa.outcome = "raise" /\ pa.exc = "ValueError" /\ Len(pa.calls) = 0

\* C2 witness: a call with the key "gpt5" raised
C2_Witness ==
    PaCalled /\ request.body.api = "gpt5" /\ pa.outcome = "raise"

\* C3: the adapter's sentinel becomes RateLimited; a non-empty string becomes
\* Success with the adapter's text unchanged; None, the empty string and an
\* exception become Failure.
C3_Normalization ==
    (PaCalled /\ Len(pa.calls) > 0)
        => LET y == pa.calls[Len(pa.calls)].yield
           IN  /\ pa.outcome = "return"
               /\ (y.outcome = "raise") => IsFailure(pa)
               /\ (y.outcome = "return" /\ y.value = RATE_LIMIT_REACHED)
                      => IsRateLimited(pa)
               /\ (y.outcome = "return" /\ y.value.kind = "str"
                     /\ y.value.s # <<>> /\ y.value # RATE_LIMIT_REACHED)
                      => (IsSuccess(pa) /\ pa.value = y.value)
               /\ (y.outcome = "return" /\ y.value \in {None, Str(<<>>)})
                      => IsFailure(pa)

\* C3 witness: a two-paragraph completion came back unchanged
C3_Witness ==
    /\ PaCalled /\ Len(pa.calls) = 1
    /\ pa.calls[1].yield.value = Str(<<"a", "\n", "\n", "a">>)
    /\ pa.value = Str(<<"a", "\n", "\n", "a">>)

\* C4: a call with a key of the table invokes exactly one adapter, the one
\* the table entry names, with the entry's model, also when the result is
\* RateLimited or Failure.
C4_SingleAttempt ==
    (PaCalled /\ request.body.api \in ApiKeys)
        => /\ Len(pa.calls) = 1
           /\ pa.calls[1].model = api_mapping[request.body.api][2]
           /\ pa.calls[1].adapter =
                (IF api_mapping[request.body.api][1] = "azure"
                 THEN "call_azure_api" ELSE "call_api")

\* C4 witness: an azure key was rate limited after one call_azure_api call
C4_Witness ==
    /\ PaCalled /\ request.body.api = "azure_grok"
    /\ IsRateLimited(pa) /\ Len(pa.calls) = 1
    /\ pa.calls[1].adapter = "call_azure_api"

\* C5: an authenticated POST /rewrite answers 400 for an empty or
\* whitespace-only text, without invoking an adapter; 200 with the rewritten
\* text on Success; 429 on RateLimited; 500 otherwise.
C5_RewriteStatus ==
    (request.route = "/rewrite" /\ Authenticated)
        => IF \A i \in 1..Len(request.body.news) : request.body.news[i] \in Whitespace
           THEN response.status = 400 /\ pa = NoPa
           ELSE /\ pa.outcome # "none"
                /\ IsSuccess(pa)
                     => response.status = 200 /\ response.rewritten_news = pa.value
                /\ IsRateLimited(pa) => response.status = 429
                /\ ~ (IsSuccess(pa) \/ IsRateLimited(pa)) => response.status = 500

\* C5 witness: an authenticated request with an unknown key was answered 500
C5_Witness ==
    /\ request.route = "/rewrite" /\ Authenticated
    /\ pa.outcome = "raise" /\ response.status = 500

\* a publish_news_to_wordpress call was made for the request in flight
PubCalled == request.route = "/publish" /\ pub.outcome # "none"

\* the call returned the validation error of the title/body split
ValidationError ==
    /\ pub.outcome = "return"
    /\ pub.result.status = "error"
    /\ pub.result.detail = <<"News content must contain both a title and a body.">>

\* s without its leading and trailing whitespace
TrimOf(s) ==
    LET solid == {i \in 1..Len(s) : s[i] \notin Whitespace}
    IN  IF solid = {} THEN <<>>
        ELSE SubSeq(s, CHOOSE i \in solid : \A j \in solid : i <= j,
                       CHOOSE i \in solid : \A j \in solid : i >= j)

\* the positions of the line breaks of the news text of the request
LineBreaks == {i \in 1..Len(request.body.news) : request.body.news[i] = "\n"}
FirstBreak == CHOOSE i \in LineBreaks : \A j \in LineBreaks : i <= j
TitlePart == TrimOf(SubSeq(request.body.news, 1, FirstBreak - 1))
BodyPart == TrimOf(SubSeq(request.body.news, FirstBreak + 1, Len(request.body.news)))

\* C6: publish splits the text at the first line break only: the title is
\* the trimmed text before it, the body the trimmed remainder with its later
\* line breaks; without a line break, or with an empty title or body, it
\* returns the validation error.
C6_TitleBodySplit ==
    (PubCalled /\ request.world.site_url /\ request.world.api_token
        /\ pub.outcome = "return")
        => IF LineBreaks = {} \/ TitlePart = <<>> \/ BodyPart = <<>>
           THEN ValidationError /\ pub.posts = <<>>
           ELSE /\ ~ ValidationError
                /\ Len(pub.posts) = 1
                /\ pub.posts[1].title = TitlePart
                /\ pub.posts[1].content = BodyPart

\* C6 witness: a body of two lines was posted with its line break
C6_Witness ==
    /\ PubCalled
    /\ request.body.news = <<"khel", "\n", "khel", "\n", "khel">>
    /\ Len(pub.posts) = 1
    /\ pub.posts[1].title = <<"khel">>
    /\ pub.posts[1].content = <<"khel", "\n", "khel">>

\* C6 witness of the error: a text without a line break was rejected
C6_WitnessError ==
    PubCalled /\ request.body.news = <<"khel", " ", "khel">> /\ ValidationError

\* C7: a publish call whose text does not yield a title and a body returns
\* the validation error before any network call: it has sent neither the
\* category lookup nor the publish POST.
C7_ValidationBeforeNetwork ==
    (PubCalled /\ ValidationError) => (pub.gets = 0 /\ pub.posts = <<>>)

\* the ids the category map of the request holds for the requested names, in
\* request order
RECURSIVE IdsOf(_, _)
IdsOf(names, map) ==
    IF names = <<>> THEN <<>>
    ELSE IF Head(names) \in DOMAIN map
         THEN <<map[Head(names)]>> \o IdsOf(Tail(names), map)
         ELSE IdsOf(Tail(names), map)

\* the category map of the call: empty when the lookup is skipped or fails
RequestCategoryMap ==
    IF request.world.app_password /\ request.world.lookup.kind = "ok"
    THEN category_map(request.world.lookup.data)
    ELSE <<>>

\* C8: the category ids posted are the map's ids of the requested names that
\* are in the map, in request order; the other names are dropped and the
\* call still posts.
C8_CategoryIds ==
    (PubCalled /\ pub.outcome = "return" /\ request.world.site_url
        /\ request.world.api_token /\ ~ ValidationError)
        => /\ Len(pub.posts) = 1
           /\ pub.posts[1].catIds = IdsOf(request.body.categories, RequestCategoryMap)

\* the elements of a list
Elements(list) == {list[i] : i \in 1..Len(list)}

\* the tags of the keyword_tags entries whose keyword occurs in the lowercased
\* title + " " + body of the payload
InferredTags(payload) ==
    {keyword_tags[i][2] : i \in {j \in 1..Len(keyword_tags) :
        Contains(Lower(payload.title \o <<" ">> \o payload.content),
                 <<keyword_tags[j][1]>>)}}

\* C9: the tags posted are the requested tags united with the tags of the
\* keyword_tags entries whose keyword occurs in the lowercased title and body,
\* without duplicates.
C9_TagUnion ==
    (PubCalled /\ Len(pub.posts) > 0)
        => LET payload == pub.posts[1]
           IN  /\ Elements(payload.tagNames)
                    = Elements(request.body.tags) \cup InferredTags(payload)
               /\ Len(payload.tagNames) = Cardinality(Elements(payload.tagNames))

\* C9 witness: two keywords of the text each added their tag to the one
\* requested, and a requested tag given twice was sent once
C9_Witness ==
    /\ PubCalled /\ Len(pub.posts) = 1
    /\ request.body.news = <<"khel", "\n", "sun", "football">>
    /\ request.body.tags = <<"breaking", "breaking">>
    /\ Elements(pub.posts[1].tagNames) = {"breaking", "khelkud", "sunko bhau"}
    /\ Len(pub.posts[1].tagNames) = 3

\* C9 witness without a keyword: the requested tags alone were sent
C9_WitnessNoKeyword ==
    /\ PubCalled /\ Len(pub.posts) = 1
    /\ request.body.news = <<"x", "\n", "Banner">>
    /\ request.body.tags = <<"breaking">>
    /\ pub.posts[1].tagNames = <<"breaking">>

\* C10: the status of the posted payload is the post_status of the request.
C10_PostStatus ==
    (PubCalled /\ Len(pub.posts) > 0)
        => pub.posts[1].post_status = request.body.post_status

\* the publish POST of the call in flight was answered by the CMS
PostAnswered ==
    /\ PubCalled /\ pub.outcome = "return" /\ Len(pub.posts) = 1
    /\ request.world.post.kind = "response"

\* C11: when the CMS answers the publish POST, the call returns Success with
\* the permalink of the answer if and only if the HTTP status is 200 and the
\* JSON body is an object whose status is "success"; in every other case it
\* returns Error, and the detail of the error holds the message of the body
\* (its msg for a 200 answer, its message for another status) when the body
\* has one.
C11_PostOutcome ==
    PostAnswered
        => LET post == request.world.post
               marked == /\ post.status_code = 200
                         /\ post.json.kind = "object"
                         /\ post.json.status = "success"
           IN  /\ (pub.result.status = "success") <=> marked
               /\ marked => pub.result.permalink = post.json.permalink
               /\ ~ marked
                    => /\ pub.result.status = "error"
                       /\ pub.result.permalink = Absent
                       /\ (post.json.kind = "object" /\ post.status_code = 200
                              /\ post.json.msg # Absent)
                            => InList(post.json.msg, pub.result.detail)
                       /\ (post.json.kind = "object" /\ post.status_code # 200
                              /\ post.json.message # Absent)
                            => InList(post.json.message, pub.result.detail)

\* C11 witness: a 200 answer without the success marker became an Error
\* carrying the msg of the body
C11_Witness ==
    /\ PostAnswered
    /\ request.world.post.status_code = 200
    /\ request.world.post.json.status = "error"
    /\ request.world.post.json.msg = "denied"
    /\ pub.result.status = "error"
    /\ pub.result.detail = <<"denied">>

\* C12: whatever the category lookup and the publish POST do, the call
\* returns a dict whose status is "success" or "error", an error with a
\* detail, and no exception leaves it.
C12_NeverRaises ==
    PubCalled
        => /\ pub.outcome = "return"
           /\ pub.result.status \in {"success", "error"}
           /\ pub.result.status = "error" => pub.result.detail # <<>>

\* the request in flight invoked the adapter itself (not a double of it)
AdapterInvoked(adapter) ==
    /\ PaCalled /\ Len(pa.calls) = 1
    /\ pa.calls[1].adapter = adapter
    /\ request.world.kind # "adapter_raises"

\* the substrings the specification lists for the fallback heuristic
ListedMarkers ==
    { <<"rate", " ", "limit">>, <<"429">>, <<"quota", " ", "exceeded">>,
      <<"too", " ", "many", " ", "requests">> }

\* C18: call_azure_api never raises; it returns the sentinel exactly when the
\* backend raised an HTTP error of status 429 or an unstructured exception
\* whose lowercased message contains one of the four listed substrings; it
\* returns None for every other error and the trimmed completion text on
\* success.
C18_AzureAdapter ==
    AdapterInvoked("call_azure_api")
        => LET b == request.world
               y == pa.calls[1].yield
               throttled ==
                    \/ b.kind = "http_error" /\ b.status = 429
                    \/ /\ b.kind = "exception"
                       /\ \E m \in ListedMarkers : Contains(Lower(b.text), m)
           IN  /\ y.outcome = "return"
               /\ (y.value = RATE_LIMIT_REACHED) <=> throttled
               /\ b.kind = "completion" => y.value = Str(TrimOf(b.text))
               /\ (b.kind # "completion" /\ ~ throttled) => y.value = None

\* C19: call_api never raises; it returns the sentinel exactly when the HTTP
\* status is 429; it returns None for another error status, a network
\* failure, an unparsable body and a missing API key, sending no request in
\* the last case; it returns the trimmed text of the first completion on
\* success.
C19_OpenRouterAdapter ==
    AdapterInvoked("call_api")
        => LET b == request.world
               y == pa.calls[1].yield
               throttled == b.kind = "http_error" /\ b.status = 429
           IN  /\ y.outcome = "return"
               /\ (y.value = RATE_LIMIT_REACHED) <=> throttled
               /\ b.kind = "completion" => y.value = Str(TrimOf(b.text))
               /\ (b.kind # "completion" /\ ~ throttled) => y.value = None
               /\ b.kind = "no_api_key" => y.requests = 0

\* a step that answers a request to the given route
Serves(route) == request = NoRequest /\ request'.route = route

\* C15: a login with the correct password is answered 200, replaces the
\* valid session token by a fresh one, writes it to the token file and sets
\* the session cookie to it, so that a request with this cookie passes the
\* authentication check; a login with a wrong password is answered 401 and
\* leaves the token and the file as they were.
C15_Login ==
    [][Serves("/login")
        => IF request'.body.password = AccessPassword
           THEN /\ response'.status = 200
                /\ valid_session_token' # valid_session_token
                /\ session_token_file' = valid_session_token'
                /\ response'.set_cookie = Str(valid_session_token')
                /\ verify_authentication(response'.set_cookie, valid_session_token')
           ELSE /\ response'.status = 401
                /\ valid_session_token' = valid_session_token
                /\ session_token_file' = session_token_file]_vars

\* C16: a logout is answered 200, clears the session cookie and replaces the
\* valid session token in memory and in the token file: after it the file
\* holds the token in memory, and the cookie that was valid before it does
\* not pass the authentication check.
C16_Logout ==
    [][Serves("/logout")
        => /\ response'.status = 200
           /\ response'.set_cookie = DeletedCookie
           /\ valid_session_token' # valid_session_token
           /\ session_token_file' = valid_session_token'
           /\ ~ verify_authentication(Str(valid_session_token),
                                      valid_session_token')]_vars

\* C20: the valid session token changes only in a step that answers a login
\* with the correct password or a logout whose request carries the cookie
\* that is valid when it arrives.
C20_TokenChanges ==
    [][valid_session_token' # valid_session_token
        => \/ /\ request'.route = "/login"
              /\ request'.body.password = AccessPassword
           \/ /\ request'.route = "/logout"
              /\ request'.cookie.kind = "str"
              /\ request'.cookie.s # <<>>
              /\ request'.cookie.s = valid_session_token]_vars

\* the upload-image requests that have arrived
Arrived == {u \in DOMAIN uploads : uploads[u].pc # "idle"}

\* what C13 says of the temp files while the requests run: no two requests
\* name the same file, a file of the directory holds the bytes of the
\* request that names it, a request that is about to send its file finds it
\* there, and a request sends its own bytes
OwnTempFiles ==
    /\ \A u, v \in Arrived :
          (u # v /\ uploads[u].temp_file_path # None)
              => uploads[u].temp_file_path # uploads[v].temp_file_path
    /\ \A f \in temp_uploads :
          /\ f.content \in Arrived
          /\ uploads[f.content].temp_file_path = Str(f.name)
    /\ \A u \in Arrived :
          /\ uploads[u].pc = "post"
                => TempFile(uploads[u].temp_file_path.s, u) \in temp_uploads
          /\ uploads[u].sent \in {0, u}

C14_UploadStatus ==
    \A u \in Arrived :
        (uploads[u].pc = "done" /\ uploads[u].posts = 1)
            => LET r == uploads[u]
                   answer == r.wp_response
               IN  /\ (answer.kind = "response" /\ answer.status_code # 201)
                        => r.response.status = answer.status_code
                   /\ (answer.kind = "response" /\ answer.status_code = 201
                          /\ answer.json = "object")
                        => /\ r.response.status = 200
                           /\ r.response.message = "Image uploaded successfully"
                           /\ r.media_id = answer.id
                   /\ answer.kind = "RequestException"
                        => r.response.status = 500

\* the cookie is missing, empty or different from the valid session token
CookieRefused(cookie, token) ==
    cookie.kind = "None" \/ cookie.s = <<>> \/ cookie.s # token

ProtectedRoutes == {"/", "/wp-categories", "/rewrite", "/publish"}

\* C17: a request to a protected route whose cookie is missing, empty or
\* different from the valid session token is answered 302 and makes no
\* process_article call, no call of the CMS and no temp file, also when the
\* valid session token is empty.
C17_Unauthenticated ==
    /\ (request.route \in ProtectedRoutes
          /\ CookieRefused(request.cookie, valid_session_token))
        => /\ response.status = 302
           /\ pa = NoPa /\ pub = NoPub /\ wp = NoWp
    /\ \A u \in Arrived :
          CookieRefused(uploads[u].cookie, uploads[u].valid_token)
              => /\ uploads[u].pc = "done"
                 /\ uploads[u].response.status = 302
                 /\ uploads[u].temp_file_path = None
                 /\ uploads[u].posts = 0
                 /\ \A f \in temp_uploads : f.content # u

\* C17 witness: the valid session token is empty and a /publish request with
\* an empty cookie was answered 302
C17_Witness ==
    /\ valid_session_token = <<>>
    /\ request.route = "/publish" /\ request.cookie = Str(<<>>)
    /\ response.status = 302 /\ pub = NoPub

\* C17 witness for upload-image: a request with a stale cookie was answered
\* 302 and left no file
C17_WitnessUpload ==
    /\ uploads[1].pc = "done" /\ uploads[1].cookie = Str(<<"stale">>)
    /\ uploads[1].response.status = 302 /\ temp_uploads = {}

\* the adapter invoked for the request in flight detected throttling: an HTTP
\* error of status 429, or (azure only) another exception whose lowercased
\* message contains one of the markers
ThrottlingDetected ==
    LET b == request.world
    IN  \/ b.kind = "http_error" /\ b.status = 429
        \/ /\ pa.calls[1].adapter = "call_azure_api"
           /\ b.kind = "exception"
           /\ \E m \in RateLimitMarkers : Contains(Lower(b.text), m)

\* C21: process_article returns RateLimited only when the invoked adapter
\* detected throttling (an HTTP 429 or a heuristic match on a raised
\* exception); a call in which the provider answered with a successful
\* completion is never reported as RateLimited, whatever the completion's
\* text is.
C21_RateLimitedOnlyWhenThrottled ==
    (PaCalled /\ IsRateLimited(pa))
        => /\ Len(pa.calls) = 1
           /\ request.world.kind # "completion"
           /\ ThrottlingDetected

=============================================================================
